---- MODULE Spec2Model ----
(***************************************************************************)
(* Model of algorithms_keeper/log.py: the ANSI colour codec, the field     *)
(* style registry with its runtime "status" colour slot, format_args,      *)
(* CustomFormatter.format and CustomAccessLogger.log.                      *)
(*                                                                         *)
(* Text is a sequence of tokens.  A token is a string: one character of    *)
(* text ("a", "\n", ...), one word of text that is never split ("GET",     *)
(* "200", ...), or one whole escape sequence ("ESC[31m").                  *)
(***************************************************************************)
EXTENDS Integers, Sequences, FiniteSets, TLC

\* ------------------------------------------------------------------ bounds

\* Number of request/response pairs handed to CustomAccessLogger.log.
NumReqs == 2

\* ------------------------------------------------------------- colour codec

NL == "\n"

\* log.py:9 and log.py:29-30: CSI + str(code) + "m", one token per code.
colorcode(code) ==
    CASE code = 0  -> <<"ESC[0m">>
      [] code = 1  -> <<"ESC[1m">>
      [] code = 2  -> <<"ESC[2m">>
      [] code = 4  -> <<"ESC[4m">>
      [] code = 22 -> <<"ESC[22m">>
      [] code = 30 -> <<"ESC[30m">>
      [] code = 31 -> <<"ESC[31m">>
      [] code = 32 -> <<"ESC[32m">>
      [] code = 33 -> <<"ESC[33m">>
      [] code = 34 -> <<"ESC[34m">>
      [] code = 35 -> <<"ESC[35m">>
      [] code = 36 -> <<"ESC[36m">>
      [] code = 37 -> <<"ESC[37m">>
      [] code = 39 -> <<"ESC[39m">>

\* log.py:56-78: the class attributes of AnsiColor, by name.
AnsiColor ==
    [ BLACK     |-> colorcode(30),
      RED       |-> colorcode(31),
      GREEN     |-> colorcode(32),
      YELLOW    |-> colorcode(33),
      BLUE      |-> colorcode(34),
      MAGENTA   |-> colorcode(35),
      CYAN      |-> colorcode(36),
      WHITE     |-> colorcode(37),
      RESET     |-> colorcode(39),
      BOLD      |-> colorcode(1),
      DIM       |-> colorcode(2),
      UNDERLINE |-> colorcode(4),
      NORMAL    |-> colorcode(22),
      RESET_ALL |-> colorcode(0),
      DEBUG     |-> colorcode(2),
      INFO      |-> colorcode(2),
      WARNING   |-> colorcode(33),
      ERROR     |-> colorcode(31),
      CRITICAL  |-> colorcode(35) \o colorcode(1) ]

\* str.upper() on the names the program passes to getattr.
upper(s) ==
    CASE s = "black"     -> "BLACK"
      [] s = "red"       -> "RED"
      [] s = "green"     -> "GREEN"
      [] s = "yellow"    -> "YELLOW"
      [] s = "blue"      -> "BLUE"
      [] s = "magenta"   -> "MAGENTA"
      [] s = "cyan"      -> "CYAN"
      [] s = "white"     -> "WHITE"
      [] s = "bold"      -> "BOLD"
      [] s = "dim"       -> "DIM"
      [] s = "underline" -> "UNDERLINE"
      [] s = "normal"    -> "NORMAL"
      [] s = "Level 25"  -> "LEVEL 25"
      [] s = "http"      -> "HTTP"
      [] OTHER           -> s

\* getattr(self, name) succeeds exactly on the attributes of AnsiColor.
hasattr(name) == name \in DOMAIN AnsiColor

\* The outcome of a call: a return value, or an exception raised.
Return(v) == [ok |-> TRUE, val |-> v]
Raise == [ok |-> FALSE, val |-> <<>>]

\* A mutation of inject: the trailing reset-level code is left out.
inject_no_level(msg, color, style, reset) ==
    IF {upper(color), upper(style), upper(reset)} \subseteq DOMAIN AnsiColor
    THEN Return(AnsiColor.RESET_ALL \o AnsiColor[upper(color)]
                \o AnsiColor[upper(style)] \o msg \o AnsiColor.RESET_ALL)
    ELSE Raise

\* log.py:80-95 AnsiColor.inject: "".join(msgparts); a getattr on a name that
\* is no attribute raises AttributeError.
inject(msg, color, style, reset) ==
    IF {upper(color), upper(style), upper(reset)} \subseteq DOMAIN AnsiColor
    THEN Return(AnsiColor.RESET_ALL \o AnsiColor[upper(color)]
                \o AnsiColor[upper(style)] \o msg \o AnsiColor.RESET_ALL
                \o AnsiColor[upper(reset)])
    ELSE Raise

\* ------------------------------------------------- values and % templates

\* A value of a log argument: its type and its textual representation.
Str(text) == [type |-> "str", repr |-> text]
Num(text) == [type |-> "int", repr |-> text]

\* str(value): the text of the value, as a string.
str(value) == Str(value.repr)

\* A %-template is a sequence of items: literal tokens and %(key)s fields.
Lit(t) == [ph |-> FALSE, x |-> t]
Ph(k) == [ph |-> TRUE, x |-> k]
LitSeq(s) == [i \in 1..Len(s) |-> Lit(s[i])]

\* The text a template's items stand for, one after the other.
RECURSIVE Fill(_, _)
Fill(fmt, mapping) ==
    IF fmt = <<>> THEN <<>>
    ELSE (IF Head(fmt).ph THEN str(mapping[Head(fmt).x]).repr ELSE <<Head(fmt).x>>)
         \o Fill(Tail(fmt), mapping)

\* fmt % mapping: every %(key)s becomes str(mapping[key]); a key the mapping
\* lacks raises KeyError.
Interpolate(fmt, mapping) ==
    IF \A i \in 1..Len(fmt) : fmt[i].ph => fmt[i].x \in DOMAIN mapping
    THEN Return(Fill(fmt, mapping))
    ELSE Raise

\* The text of a template that is not interpolated.
RECURSIVE TemplateText(_)
TemplateText(fmt) ==
    IF fmt = <<>> THEN <<>>
    ELSE (IF Head(fmt).ph THEN <<"%(", Head(fmt).x, ")s">> ELSE <<Head(fmt).x>>)
         \o TemplateText(Tail(fmt))

\* str.replace("\n", "\n" + c) on a token sequence.
RECURSIVE replace(_, _)
replace(s, c) ==
    IF s = <<>> THEN <<>>
    ELSE (IF Head(s) = NL THEN <<NL>> \o c ELSE <<Head(s)>>) \o replace(Tail(s), c)

\* --------------------------------------------------------------- the state

VARIABLES
    MSG_ARGS_FORMAT,  \* log.py:11-24, the field style registry
    loglevel,         \* log.py:177, the severity threshold of the loggers
    styleFmt,         \* log.py:153, self._style._fmt of the one CustomFormatter
    lock,             \* the lock of the one handler (log.py:174): its holder, 0 when free
    running,          \* the caller the event loop is running, 0 when none
    pc,               \* where each caller is
    status,           \* response.status of each request
    loggerlevel,      \* log.py:114, the local loggerlevel of each log call
    callerArgs,       \* the mapping object each caller passed to the logger
    rec,              \* the LogRecord of each logging call
    result,           \* how each call of CustomFormatter.format ended
    stream,           \* the lines the handler wrote, per caller
    classified,       \* the argument of the latest inject_status_color call, 0 when none
    inj               \* the calls of AnsiColor.inject on its own (SpecInject)

vars == <<MSG_ARGS_FORMAT, loglevel, styleFmt, lock, running, pc, status,
          loggerlevel, callerArgs, rec, result, stream, classified, inj>>

\* The callers: the access logger once per request, and one other caller of
\* the package logger (log.py:180).
Reqs == 1..NumReqs
Bot == 0
Procs == {Bot} \cup Reqs

\* log.py:26
STATUS_OK == {200, 201, 204}

\* The status codes requests are answered with.
StatusCodes == {200, 201, 204, 404, 500}

\* The five level names of logging, and a level with no name registered
\* (logger.log(25, ...) makes a record whose levelname is "Level 25").
LevelNames == {"DEBUG", "INFO", "WARNING", "ERROR", "CRITICAL"}
UnnamedLevel == "Level 25"

\* logging's level numbers.
levelno(name) ==
    CASE name = "DEBUG"    -> 10
      [] name = "INFO"     -> 20
      [] name = "WARNING"  -> 30
      [] name = "ERROR"    -> 40
      [] name = "CRITICAL" -> 50
      [] name = UnnamedLevel -> 25

\* log.py:11-24
MSG_ARGS_FORMAT_INIT ==
    [ event          |-> [color |-> "green"],
      ratelimit      |-> [color |-> "white", style |-> "bold"],
      time_remaining |-> [color |-> "white", style |-> "bold"],
      url            |-> [color |-> "blue", style |-> "underline"],
      file           |-> [color |-> "yellow"],
      request        |-> [color |-> "yellow"],
      time           |-> [color |-> "yellow"],
      status         |-> [color |-> "", style |-> "bold"],
      method         |-> [color |-> "magenta", style |-> "bold"],
      path           |-> [color |-> "blue"],
      data           |-> [color |-> "yellow"],
      version        |-> [color |-> "yellow"] ]

\* A mutation of inject_status_color: the two colours are swapped.
inject_status_color_inverted(st) ==
    [MSG_ARGS_FORMAT EXCEPT
        !["status"]["color"] = IF st \in STATUS_OK THEN "red" ELSE "green"]

\* A mutation of inject_status_color: the write is forgotten.
inject_status_color_no_write(st) == MSG_ARGS_FORMAT

\* log.py:33-36 inject_status_color: the registry after the call.
inject_status_color(st) ==
    [MSG_ARGS_FORMAT EXCEPT
        !["status"]["color"] = IF st \in STATUS_OK THEN "green" ELSE "red"]

\* A mutation of format_args: the values are written back into args itself.
format_args_in_place(args, level) ==
    LET hit == DOMAIN args \cap DOMAIN MSG_ARGS_FORMAT
        inj_(k) == LET c == MSG_ARGS_FORMAT[k]
                       style == IF "style" \notin DOMAIN c THEN "normal" ELSE c["style"]
                   IN  inject(str(args[k]).repr, c["color"], style, level)
        formatted == [k \in DOMAIN args |->
                        IF k \in hit THEN Str(inj_(k).val) ELSE args[k]]
    IN  IF \A k \in hit : inj_(k).ok
        THEN [ok |-> TRUE, ret |-> formatted, args |-> formatted,
              registry |-> MSG_ARGS_FORMAT]
        ELSE [ok |-> FALSE, ret |-> <<>>, args |-> args,
              registry |-> MSG_ARGS_FORMAT]

\* log.py:39-53 format_args: what it returns (ret; ok is FALSE when inject
\* raised), and the input mapping and the registry as the call leaves them.
format_args(args, level) ==
    LET hit == DOMAIN args \cap DOMAIN MSG_ARGS_FORMAT
        inj_(k) == LET c == MSG_ARGS_FORMAT[k]
                       style == IF "style" \notin DOMAIN c THEN "normal" ELSE c["style"]
                   IN  inject(str(args[k]).repr, c["color"], style, level)
        formatted == [k \in DOMAIN args |->
                        IF k \in hit THEN Str(inj_(k).val) ELSE args[k]]
    IN  IF \A k \in hit : inj_(k).ok
        THEN [ok |-> TRUE, ret |-> formatted, args |-> args,
              registry |-> MSG_ARGS_FORMAT]
        ELSE [ok |-> FALSE, ret |-> <<>>, args |-> args,
              registry |-> MSG_ARGS_FORMAT]

\* ------------------------------------------------------- CustomFormatter

\* log.py:134
default_fmt == <<Lit("["), Ph("levelname"), Lit("]"), Lit(" "), Ph("message")>>

\* log.py:136-142
LOG_LEVEL_FORMAT ==
    [ DEBUG    |-> LitSeq(AnsiColor.DEBUG) \o default_fmt \o LitSeq(AnsiColor.RESET_ALL),
      INFO     |-> LitSeq(AnsiColor.INFO) \o default_fmt \o LitSeq(AnsiColor.RESET_ALL),
      WARNING  |-> LitSeq(AnsiColor.WARNING) \o default_fmt \o LitSeq(AnsiColor.RESET_ALL),
      ERROR    |-> LitSeq(AnsiColor.ERROR) \o default_fmt \o LitSeq(AnsiColor.RESET_ALL),
      CRITICAL |-> LitSeq(AnsiColor.CRITICAL) \o default_fmt \o LitSeq(AnsiColor.RESET_ALL) ]

\* log.py:151: self.LOG_LEVEL_FORMAT.get(record.levelname, self.default_fmt)
custom_fmt(levelname) ==
    IF levelname \in DOMAIN LOG_LEVEL_FORMAT
    THEN LOG_LEVEL_FORMAT[levelname] ELSE default_fmt

\* log.py:156 record.getMessage(): msg % args when the record has args.
getMessage(record) ==
    IF DOMAIN record.args # {}
    THEN Interpolate(record.msg, record.args)
    ELSE Return(TemplateText(record.msg))

\* A mutation of add_exc_text: only the appended exception text is recoloured.
add_exc_text_only_exc(msg, exc_text, levelname) ==
    IF ~hasattr(levelname) THEN Raise
    ELSE Return((IF msg = <<>> \/ msg[Len(msg)] # NL THEN msg \o <<NL>> ELSE msg)
                \o replace(exc_text, AnsiColor[levelname]))

\* log.py:161-165: the message with the exception text added;
\* getattr(AnsiColor, record.levelname) raises on a name that is no attribute.
add_exc_text(msg, exc_text, levelname) ==
    LET m1 == IF msg = <<>> \/ msg[Len(msg)] # NL THEN msg \o <<NL>> ELSE msg
        m2 == m1 \o exc_text
    IN  IF ~hasattr(levelname) THEN Raise
        ELSE Return(replace(m2, AnsiColor[levelname]))

\* log.py:166-169: the message with the stack text added.
add_stack_info(msg, stack_info) ==
    (IF msg = <<>> \/ msg[Len(msg)] # NL THEN msg \o <<NL>> ELSE msg) \o stack_info

\* What format_body leaves: ok is FALSE when an exception left the method;
\* rec, args and registry are the record, the caller's mapping and the
\* registry as the call leaves them.
Left(ok, record, fa) ==
    [ok |-> ok, rec |-> record, args |-> fa.args, registry |-> fa.registry]

\* log.py:166-170: the stack text is added and record.message is set.
format_stack(record, fa, msg) ==
    Left(TRUE,
         [record EXCEPT !.message = IF record.stack_info # <<>>
                                    THEN add_stack_info(msg, record.stack_info)
                                    ELSE msg],
         fa)

\* log.py:160-165 on the outcome ex of adding the exception text.
format_exc_done(record, fa, ex) ==
    IF ex.ok THEN format_stack(record, fa, ex.val) ELSE Left(FALSE, record, fa)

\* log.py:160: if record.exc_text
format_exc(record, fa, msg) ==
    IF record.exc_text # <<>>
    THEN format_exc_done(record, fa, add_exc_text(msg, record.exc_text, record.levelname))
    ELSE format_stack(record, fa, msg)

\* log.py:156-159: the base message; the exception is rendered once, into
\* exc_text.
format_msg(record, fa, gm) ==
    IF ~gm.ok THEN Left(FALSE, record, fa)
    ELSE format_exc(IF record.exc_info # <<>> /\ record.exc_text = <<>>
                    THEN [record EXCEPT !.exc_text = record.exc_info]
                    ELSE record,
                    fa, gm.val)

\* log.py:155: record.args = format_args(record.args, record.levelname)
format_with_args(record, fa) ==
    IF ~fa.ok THEN Left(FALSE, record, fa)
    ELSE format_msg([record EXCEPT !.args = fa.ret], fa,
                    getMessage([record EXCEPT !.args = fa.ret]))

\* log.py:154-170: format from the argument formatting to record.message.
format_body(record) ==
    IF DOMAIN record.args # {}
    THEN format_with_args(record, format_args(record.args, record.levelname))
    ELSE format_with_args(record, [ok |-> TRUE, ret |-> record.args,
                                   args |-> record.args,
                                   registry |-> MSG_ARGS_FORMAT])

\* log.py:171 self.formatMessage(record): self._style._fmt % record.__dict__
formatMessage(record) ==
    Interpolate(styleFmt, [levelname |-> Str(<<record.levelname>>),
                           message |-> Str(record.message)])

\* ------------------------------------------------------- the logging calls

\* A mutation of isEnabledFor: a record at the threshold itself is dropped.
isEnabledFor_strict(levelname) == levelno(levelname) > levelno(loglevel)

\* Logger.isEnabledFor: the threshold set at log.py:177-178.
isEnabledFor(levelname) == levelno(levelname) >= levelno(loglevel)

\* A mutation of acquire: the handler takes no lock.
acquire_no_lock(p) == TRUE

\* Handler.acquire of the handler made at log.py:174: format runs under it.
acquire(p) == lock = 0

\* A record as the logging call makes it.
LogRecord(levelname, msg, args, exc_info, stack_info) ==
    [levelname |-> levelname, msg |-> msg, args |-> args, exc_info |-> exc_info,
     exc_text |-> <<>>, stack_info |-> stack_info, message |-> <<>>]

NoRecord == LogRecord("", <<>>, <<>>, <<>>, <<>>)

\* log.py:103
LOG_FORMAT ==
    <<Ph("logger"), Lit(" "), Lit("\""), Ph("method"), Lit(" "), Ph("path"), Lit(" "),
      Ph("version"), Lit("\""), Lit(" "), Lit("=>"), Lit(" "), Ph("status"), Lit(" "),
      Ph("time")>>

\* The request every call of log is given, and the reason of each status.
REQUEST == [method |-> "POST", path_qs |-> "/", scheme |-> "http", version |-> "1.1",
            ms |-> "12"]
reason(st) ==
    CASE st = 200 -> "OK"
      [] st = 201 -> "Created"
      [] st = 204 -> "No Content"
      [] st = 404 -> "Not Found"
      [] st = 500 -> "Internal Server Error"

\* str(response.status)
StatusText(st) ==
    CASE st = 200 -> "200"
      [] st = 201 -> "201"
      [] st = 204 -> "204"
      [] st = 404 -> "404"
      [] st = 500 -> "500"

\* log.py:120-128: the arguments of the access record.
AccessArgs(st) ==
    [ logger  |-> Str(<<"algorithms_keeper">>),
      method  |-> Str(<<REQUEST.method>>),
      path    |-> Str(<<REQUEST.path_qs>>),
      version |-> Str(<<upper(REQUEST.scheme), "/", REQUEST.version>>),
      status  |-> Str(<<StatusText(st), ":", reason(st)>>),
      time    |-> Str(<<REQUEST.ms, "ms">>) ]

\* A mutation of select_loggerlevel: only 200 counts as a success.
select_loggerlevel_200(st) == IF st = 200 THEN "DEBUG" ELSE "ERROR"

\* log.py:114-116
select_loggerlevel(st) == IF st \in STATUS_OK THEN "DEBUG" ELSE "ERROR"

\* log.py:114-117: the level is chosen and the status colour is written.
LogClassify(p, st) ==
    /\ p \in Reqs
    /\ pc[p] = "idle"
    /\ status' = [status EXCEPT ![p] = st]
    /\ loggerlevel' = [loggerlevel EXCEPT ![p] = select_loggerlevel(st)]
    /\ MSG_ARGS_FORMAT' = inject_status_color(st)
    /\ classified' = st
    /\ pc' = [pc EXCEPT ![p] = "classified"]
    /\ UNCHANGED <<loglevel, styleFmt, lock, callerArgs, rec, result, stream, inj>>

\* The logging call up to the handler: a record is made when the logger is
\* enabled for the level, and the handler's lock is taken for emit.
Handle(p, record) ==
    IF isEnabledFor(record.levelname)
    THEN /\ acquire(p)
         /\ lock' = p
         /\ rec' = [rec EXCEPT ![p] = record]
         /\ callerArgs' = [callerArgs EXCEPT ![p] = record.args]
         /\ pc' = [pc EXCEPT ![p] = "select"]
    ELSE /\ pc' = [pc EXCEPT ![p] = "done"]
         /\ UNCHANGED <<lock, rec, callerArgs>>

\* log.py:118-129: loggerlevel(self.log_format, {...})
LogCall(p) ==
    /\ p \in Reqs
    /\ pc[p] = "classified"
    /\ Handle(p, LogRecord(loggerlevel[p], LOG_FORMAT, AccessArgs(status[p]), <<>>, <<>>))
    /\ UNCHANGED <<MSG_ARGS_FORMAT, loglevel, styleFmt, status, loggerlevel, result,
                   stream, classified, inj>>

\* log.py:151-153: the template is chosen and stored in the shared formatter.
FormatSelect(p) ==
    /\ pc[p] = "select"
    /\ styleFmt' = custom_fmt(rec[p].levelname)
    /\ pc' = [pc EXCEPT ![p] = "body"]
    /\ UNCHANGED <<MSG_ARGS_FORMAT, loglevel, lock, status, loggerlevel, callerArgs,
                   rec, result, stream, classified, inj>>

\* log.py:154-170; an exception leaves format and emit, which releases the
\* lock and writes nothing.
FormatBody(p) ==
    /\ pc[p] = "body"
    /\ \E b \in {format_body(rec[p])} :
           /\ rec' = [rec EXCEPT ![p] = b.rec]
           /\ callerArgs' = [callerArgs EXCEPT ![p] = b.args]
           /\ MSG_ARGS_FORMAT' = b.registry
           /\ IF b.ok
              THEN /\ pc' = [pc EXCEPT ![p] = "message"]
                   /\ UNCHANGED <<lock, result>>
              ELSE /\ pc' = [pc EXCEPT ![p] = "done"]
                   /\ result' = [result EXCEPT ![p] = "raised"]
                   /\ lock' = 0
    /\ UNCHANGED <<loglevel, styleFmt, status, loggerlevel, stream, classified, inj>>

\* log.py:171, then the handler writes the line and releases its lock.
FormatEmit(p) ==
    /\ pc[p] = "message"
    /\ stream' = [stream EXCEPT ![p] = Append(@, formatMessage(rec[p]).val \o <<NL>>)]
    /\ result' = [result EXCEPT ![p] = "returned"]
    /\ lock' = 0
    /\ pc' = [pc EXCEPT ![p] = "done"]
    /\ UNCHANGED <<MSG_ARGS_FORMAT, loglevel, styleFmt, status, loggerlevel, callerArgs,
                   rec, classified, inj>>

InitCommon ==
    /\ MSG_ARGS_FORMAT = MSG_ARGS_FORMAT_INIT
    /\ styleFmt = default_fmt
    /\ lock = 0
    /\ running = 0
    /\ pc = [p \in Procs |-> "idle"]
    /\ status = [p \in Reqs |-> 0]
    /\ loggerlevel = [p \in Reqs |-> ""]
    /\ callerArgs = [p \in Procs |-> <<>>]
    /\ rec = [p \in Procs |-> NoRecord]
    /\ result = [p \in Procs |-> "none"]
    /\ stream = [p \in Procs |-> <<>>]
    /\ classified = 0

InjIdle == [stage |-> "idle"]

\* The state after import: LOG_LEVEL (log.py:177) is any of the level names.
Init ==
    /\ InitCommon
    /\ loglevel \in LevelNames
    /\ inj = InjIdle

\* Requests logged by callers that may be interleaved at any point.
Next ==
    \/ \E p \in Reqs, st \in StatusCodes : LogClassify(p, st) /\ UNCHANGED running
    \/ \E p \in Reqs : LogCall(p) /\ UNCHANGED running
    \/ \E p \in Reqs : FormatSelect(p) /\ UNCHANGED running
    \/ \E p \in Reqs : FormatBody(p) /\ UNCHANGED running
    \/ \E p \in Reqs : FormatEmit(p) /\ UNCHANGED running

Spec == Init /\ [][Next]_vars

\* A mutation of may_run: a call of log can be interrupted by another.
may_run_any(p) == TRUE

\* log.py:105: log is a plain def with no await in it, so on the one thread
\* of the event loop a call that has started runs to its end.
may_run(p) == running \in {0, p}

\* The event loop runs p until its call of log has ended.
Runs(p) == running' = IF pc'[p] = "done" THEN 0 ELSE p

\* Requests logged on the one thread of the event loop.
NextCoop ==
    \/ \E p \in Reqs, st \in StatusCodes : may_run(p) /\ LogClassify(p, st) /\ Runs(p)
    \/ \E p \in Reqs : may_run(p) /\ LogCall(p) /\ Runs(p)
    \/ \E p \in Reqs : may_run(p) /\ FormatSelect(p) /\ Runs(p)
    \/ \E p \in Reqs : may_run(p) /\ FormatBody(p) /\ Runs(p)
    \/ \E p \in Reqs : may_run(p) /\ FormatEmit(p) /\ Runs(p)

SpecCoop == Init /\ [][NextCoop]_vars

\* ------------------------------------------- the formatter on any record

\* The calls of the other caller: a template with the mapping it needs.
\* "event" and "url" are fields of the registry, "n" is not; the "status"
\* field is only ever passed by the access logger.
BotCalls ==
    { [msg |-> <<Lit("m")>>, args |-> <<>>],
      [msg |-> <<Ph("event"), Lit(" "), Ph("n")>>,
       args |-> [event |-> Str(<<"push">>), n |-> Num(<<"7">>)]],
      [msg |-> <<Lit("a"), Lit(NL), Ph("url")>>, args |-> [url |-> Str(<<"u">>)]],
      [msg |-> <<Ph("n"), Lit(NL)>>, args |-> [n |-> Num(<<"7">>)]] }

\* The rendered exception of a call (none, one line, two lines) and its
\* stack text (none, two lines).
ExcInfos == {<<>>, <<"E">>, <<"E", NL, "F">>}
StackInfos == {<<>>, <<"S", NL, "T">>}

\* logger.log(level, msg, args, exc_info=..., stack_info=...) by the other
\* caller of the package logger (log.py:180).
BotLog(levelname, call, exc_info, stack_info) ==
    /\ pc[Bot] = "idle"
    /\ Handle(Bot, LogRecord(levelname, call.msg, call.args, exc_info, stack_info))
    /\ UNCHANGED <<MSG_ARGS_FORMAT, loglevel, styleFmt, running, status, loggerlevel,
                   result, stream, classified, inj>>

NextFmt ==
    \/ \E levelname \in LevelNames \cup {UnnamedLevel}, call \in BotCalls,
          exc_info \in ExcInfos, stack_info \in StackInfos :
            BotLog(levelname, call, exc_info, stack_info)
    \/ FormatSelect(Bot) /\ UNCHANGED running
    \/ FormatBody(Bot) /\ UNCHANGED running
    \/ FormatEmit(Bot) /\ UNCHANGED running

\* One logging call of any level, arguments, exception and stack.
SpecFmt == Init /\ [][NextFmt]_vars

\* --------------------------------------------------- inject on its own

InjColors == {"green", "blue", "red"}
InjStyles == {"bold", "normal", "underline"}
InjMsgs == {<<"a">>, <<"a", NL>>}
InjPre == {<<>>, <<"p">>}
InjPost == {<<>>, <<"q">>}

\* Color.inject(msg, color, style, reset)
InjectInner ==
    /\ inj.stage = "in"
    /\ inj' = [inj EXCEPT !.stage = "inner",
                          !.out1 = inject(inj.msg, inj.color, inj.style, inj.reset)]
    /\ UNCHANGED <<MSG_ARGS_FORMAT, loglevel, styleFmt, lock, running, pc, status,
                   loggerlevel, callerArgs, rec, result, stream, classified>>

\* Color.inject(pre + inner + post, color2, style2, reset2)
InjectOuter ==
    /\ inj.stage = "inner"
    /\ inj.out1.ok
    /\ inj' = [inj EXCEPT !.stage = "outer",
                          !.out2 = inject(inj.pre \o inj.out1.val \o inj.post,
                                          inj.color2, inj.style2, inj.reset2)]
    /\ UNCHANGED <<MSG_ARGS_FORMAT, loglevel, styleFmt, lock, running, pc, status,
                   loggerlevel, callerArgs, rec, result, stream, classified>>

InitInject ==
    /\ InitCommon
    /\ loglevel = "INFO"
    /\ inj \in [stage : {"in"}, msg : InjMsgs, color : InjColors, style : InjStyles,
                reset : LevelNames, pre : InjPre, post : InjPost, color2 : InjColors,
                style2 : InjStyles, reset2 : LevelNames, out1 : {Raise}, out2 : {Raise}]

NextInject == InjectInner \/ InjectOuter

SpecInject == InitInject /\ [][NextInject]_vars

\* ------------------------------------------------------------ the claims

\* The codes of the two status colours.
GreenCode == "ESC[32m"
RedCode == "ESC[31m"

\* The request's record has been through format_args.
Formatted(p) == pc[p] = "message" \/ result[p] = "returned"

\* The colour code the status field of p's record was rendered with: the
\* second token of reset-all, colour, style, text, reset-all, level.
StatusColorOf(p) == rec[p].args["status"].repr[2]

\* The level name in a written line: "[" name "]" follows the level's code.
LineLevel(line) == line[3]

\* C1: the severity of a request's logging call, of its record and of the
\* line written for it is DEBUG exactly when its own status code is 200,
\* 201 or 204, and ERROR for every other code, whatever the other requests do.
C1_SeverityByOwnStatus ==
    \A p \in Reqs :
        pc[p] # "idle" =>
            LET want == IF status[p] \in {200, 201, 204} THEN "DEBUG" ELSE "ERROR"
            IN  /\ loggerlevel[p] = want
                /\ rec[p] # NoRecord => rec[p].levelname = want
                /\ stream[p] # <<>> => LineLevel(stream[p][1]) = want

\* Two requests of different severities have both been written.
C1_Witness ==
    /\ status[1] = 201 /\ status[2] = 500
    /\ stream[1] # <<>> /\ stream[2] # <<>>

\* C2: on the event loop, the status field of every formatted access record
\* is green when its own status code is 200, 201 or 204 and red otherwise.
C2_OwnColorCooperative ==
    \A p \in Reqs :
        Formatted(p) =>
            StatusColorOf(p) = IF status[p] \in {200, 201, 204} THEN GreenCode ELSE RedCode

\* A 500 is rendered after a 200 has been classified and logged.
C2_Witness ==
    /\ status[1] = 200 /\ pc[1] = "done"
    /\ status[2] = 500 /\ result[2] = "returned"
    /\ StatusColorOf(2) = RedCode

\* C3: a status field is rendered with the colour of the latest
\* inject_status_color call over all requests.
C3_ColorOfLatestClassify ==
    [][\A p \in Reqs :
         (pc[p] = "body" /\ pc'[p] = "message") =>
             rec'[p].args["status"].repr[2] =
                 IF classified \in {200, 201, 204} THEN GreenCode ELSE RedCode]_vars

\* classify(A), classify(B), format(A): a 500 is rendered green.
C3_Witness ==
    \E p \in Reqs :
        /\ status[p] = 500
        /\ result[p] = "returned"
        /\ StatusColorOf(p) = GreenCode

\* C4 as claimed: every completed call of log has written exactly one line.
C4_ExactlyOneRecord ==
    \A p \in Reqs :
        /\ Len(stream[p]) <= 1
        /\ pc[p] = "done" => Len(stream[p]) = 1

\* C4 as amended: a completed call of log has written one line when its
\* severity is at or above the threshold LOG_LEVEL and none otherwise, and
\* never more than one; no line is written before the call completes.
C4_OneRecordIfEnabled ==
    \A p \in Reqs :
        /\ Len(stream[p]) <= 1
        /\ pc[p] = "done" =>
               Len(stream[p]) =
                   IF levelno(IF status[p] \in {200, 201, 204} THEN "DEBUG" ELSE "ERROR")
                          >= levelno(loglevel)
                   THEN 1 ELSE 0
        /\ pc[p] # "done" => Len(stream[p]) = 0

\* One completed call wrote its line and another, below the threshold, none.
C4_Witness ==
    \E p, q \in Reqs :
        /\ pc[p] = "done" /\ Len(stream[p]) = 1
        /\ pc[q] = "done" /\ Len(stream[q]) = 0

\* C5: the call of format_args in format leaves the caller's mapping and
\* the registry as they were; what it returns has the key set of its input
\* and, for every key that is not in the registry, the input's value.
C5_FormatArgsFrame ==
    [][\A p \in Procs :
         (pc[p] = "body" /\ pc'[p] # "body") =>
             /\ callerArgs'[p] = callerArgs[p]
             /\ MSG_ARGS_FORMAT' = MSG_ARGS_FORMAT
             /\ (pc'[p] = "message" /\ DOMAIN rec[p].args # {}) =>
                    /\ DOMAIN rec'[p].args = DOMAIN rec[p].args
                    /\ \A k \in DOMAIN rec[p].args \ DOMAIN MSG_ARGS_FORMAT :
                           rec'[p].args[k] = rec[p].args[k]]_vars

\* A mapping with a registry key and another key has been formatted: the
\* registry key's value is injected, the other is the integer it was.
C5_Witness ==
    /\ Formatted(Bot)
    /\ DOMAIN rec[Bot].args = {"event", "n"}
    /\ rec[Bot].args["n"] = Num(<<"7">>)
    /\ rec[Bot].args["event"].repr # <<"push">>
    /\ callerArgs[Bot]["event"] = Str(<<"push">>)

\* C6: a record whose level name is none of the five is formatted with the
\* plain default template, and format raises nothing.
C6_UnrecognizedLevelFormats ==
    (rec[Bot].levelname = UnnamedLevel /\ pc[Bot] = "done") =>
        /\ result[Bot] = "returned"
        /\ stream[Bot] =
               << <<"[", UnnamedLevel, "]", " ">> \o rec[Bot].message \o <<NL>> >>

\* The text s with the code c taken out after each of its newlines.
RECURSIVE Strip(_, _)
Strip(s, c) ==
    IF s = <<>> THEN <<>>
    ELSE IF Head(s) = NL /\ Len(s) > Len(c) /\ SubSeq(s, 2, Len(c) + 1) = c
         THEN <<NL>> \o Strip(SubSeq(s, Len(c) + 2, Len(s)), c)
         ELSE <<Head(s)>> \o Strip(Tail(s), c)

\* Every newline of s is directly followed by the code c.
Recoloured(s, c) ==
    \A i \in 1..Len(s) :
        s[i] = NL => (i + Len(c) <= Len(s) /\ SubSeq(s, i + 1, i + Len(c)) = c)

\* The base message of the Bot's record, and the message format built from
\* it before any stack text.
BaseMsg == getMessage(rec[Bot]).val
Joined == (IF BaseMsg = <<>> \/ BaseMsg[Len(BaseMsg)] # NL
           THEN BaseMsg \o <<NL>> ELSE BaseMsg) \o rec[Bot].exc_text
StackPart == IF rec[Bot].stack_info = <<>> THEN <<>> ELSE <<NL>> \o rec[Bot].stack_info
BeforeStack == SubSeq(rec[Bot].message, 1, Len(rec[Bot].message) - Len(StackPart))
WithExcText == result[Bot] = "returned" /\ rec[Bot].exc_text # <<>>

\* C7 as claimed: the base message is left as it is, a newline is added if
\* it does not end with one, and the exception text follows with each of
\* its own newlines followed by the level's code.  The newline that is
\* added may or may not be followed by the code: the claim is read either way.
C7_OnlyExceptionRecoloured ==
    WithExcText =>
        LET c == AnsiColor[rec[Bot].levelname]
            exc == replace(rec[Bot].exc_text, c)
        IN  IF BaseMsg # <<>> /\ BaseMsg[Len(BaseMsg)] = NL
            THEN BeforeStack = BaseMsg \o exc
            ELSE BeforeStack \in {BaseMsg \o <<NL>> \o exc, BaseMsg \o <<NL>> \o c \o exc}

\* C7 as amended: the message is the base message, a newline if the base
\* message does not end with one, then the exception text, and in the whole
\* of it (base message, joining newline and exception text) every newline is
\* followed by the level's code; the stack text, if any, comes after.
C7_EveryNewlineRecoloured ==
    WithExcText =>
        /\ Recoloured(BeforeStack, AnsiColor[rec[Bot].levelname])
        /\ Strip(BeforeStack, AnsiColor[rec[Bot].levelname]) = Joined
        /\ rec[Bot].message = BeforeStack \o StackPart

\* A base message with a newline inside it got a two-line exception text.
C7_Witness ==
    /\ WithExcText
    /\ rec[Bot].msg = <<Lit("a"), Lit(NL), Ph("url")>>
    /\ rec[Bot].exc_text = <<"E", NL, "F">>

\* What a terminal shows after an escape sequence: the foreground colour
\* and the styles in effect.
TermDefault == [fg |-> "default", bold |-> FALSE, dim |-> FALSE, underline |-> FALSE]
Sgr(t, tok) ==
    CASE tok = "ESC[0m"  -> TermDefault
      [] tok = "ESC[1m"  -> [t EXCEPT !.bold = TRUE]
      [] tok = "ESC[2m"  -> [t EXCEPT !.dim = TRUE]
      [] tok = "ESC[4m"  -> [t EXCEPT !.underline = TRUE]
      [] tok = "ESC[22m" -> [t EXCEPT !.bold = FALSE, !.dim = FALSE]
      [] tok = "ESC[39m" -> [t EXCEPT !.fg = "default"]
      [] tok \in {"ESC[30m", "ESC[31m", "ESC[32m", "ESC[33m", "ESC[34m", "ESC[35m",
                  "ESC[36m", "ESC[37m"} -> [t EXCEPT !.fg = tok]
      [] OTHER -> t

\* The terminal after the text s, from its default state.
RECURSIVE TermAfter(_)
TermAfter(s) ==
    IF s = <<>> THEN TermDefault
    ELSE Sgr(TermAfter(SubSeq(s, 1, Len(s) - 1)), s[Len(s)])

\* The outer string up to the end of the inner injected string.
UpToInner == SubSeq(inj.out2.val, 1, 3 + Len(inj.pre) + Len(inj.out1.val))

\* inject returned reset-all, colour, style, message, reset-all, level.
Layout(out, msg, color, style, reset) ==
    /\ out.ok
    /\ out.val = <<"ESC[0m">> \o AnsiColor[upper(color)] \o AnsiColor[upper(style)]
                 \o msg \o <<"ESC[0m">> \o AnsiColor[reset]

InjLayouts ==
    /\ inj.stage \in {"inner", "outer"} =>
           Layout(inj.out1, inj.msg, inj.color, inj.style, inj.reset)
    /\ inj.stage = "outer" =>
           Layout(inj.out2, inj.pre \o inj.out1.val \o inj.post,
                  inj.color2, inj.style2, inj.reset2)

\* C8 as claimed: inject returns the six parts in order, and the text that
\* follows an injected string inside another injection is shown in the
\* outer injection's colour.
C8_OuterColorKept ==
    /\ InjLayouts
    /\ (inj.stage = "outer" /\ inj.post # <<>>) =>
           TermAfter(UpToInner).fg = TermAfter(AnsiColor[upper(inj.color2)]).fg

\* C8 as amended: inject returns the six parts in order, and the text that
\* follows an injected string inside another injection is shown as the
\* inner call's reset level sets it after a full reset, whatever the outer
\* injection's colour and style.
C8_InnerResetLevelInEffect ==
    /\ InjLayouts
    /\ inj.stage = "outer" =>
           TermAfter(UpToInner) = TermAfter(<<"ESC[0m">> \o AnsiColor[inj.reset])

\* A blue underlined outer injection around an inner one that resets to
\* ERROR: the outer text after the inner string is red and not underlined.
C8_Witness ==
    /\ inj.stage = "outer"
    /\ inj.color2 = "blue" /\ inj.style2 = "underline" /\ inj.reset = "ERROR"
    /\ inj.post = <<"q">>
    /\ TermAfter(UpToInner).fg = RedCode
    /\ ~TermAfter(UpToInner).underline

\* C9: a request's status colour is written before its record is formatted:
\* while a record with a "status" argument is in format, the status colour
\* slot holds "green" or "red".
C9_StatusColorWrittenBeforeFormat ==
    \A p \in Procs :
        (pc[p] \in {"select", "body", "message"} /\ "status" \in DOMAIN rec[p].args) =>
            /\ MSG_ARGS_FORMAT["status"]["color"] \in {"green", "red"}
            /\ classified # 0

\* An access record is about to have its arguments formatted.
C9_Witness ==
    \E p \in Reqs : pc[p] = "body" /\ "status" \in DOMAIN rec[p].args

\* C10 as claimed: nothing shared between the formatting of records is
\* written but the status colour slot, so the formatter's template is never
\* changed by a step.
C10_OnlyStatusSlotWritten == [][styleFmt' = styleFmt]_vars

\* The line format writes for p's record with the template of its own level.
OwnLine(p) ==
    Fill(custom_fmt(rec[p].levelname),
         [levelname |-> Str(<<rec[p].levelname>>), message |-> Str(rec[p].message)])
    \o <<NL>>

\* C10 as amended: format also writes the shared formatter's template
\* (log.py:153), but only under the handler's lock: while a record is
\* between the write and formatMessage the template is that of its own
\* severity, at most one record is in format, and every line written is
\* made with the template of its record's own severity.
C10_OwnTemplateUnderLock ==
    /\ \A p \in Reqs :
           /\ pc[p] \in {"body", "message"} => styleFmt = custom_fmt(rec[p].levelname)
           /\ pc[p] \in {"select", "body", "message"} => lock = p
           /\ stream[p] # <<>> => stream[p] = <<OwnLine(p)>>

\* A DEBUG line and an ERROR line have both been written.
C10_Witness ==
    \E p, q \in Reqs :
        /\ stream[p] # <<>> /\ rec[p].levelname = "DEBUG"
        /\ stream[q] # <<>> /\ rec[q].levelname = "ERROR"

====
